---- MODULE Spec2Model ----
(***************************************************************************)
(* A model of imgbot (src/src/index.ts): the value validators of the       *)
(* command options and the messageCreate handler with its image pipeline.  *)
(*                                                                         *)
(* Strings the code inspects character by character (the message content,  *)
(* the raw text given to a validator) are sequences of one-character       *)
(* strings.  Strings the code only passes along (URLs, messages of the     *)
(* argument parser) are TLA+ strings.                                      *)
(*                                                                         *)
(* An optional value (T | undefined) is a set: {} is undefined, {v} is v.  *)
(***************************************************************************)
EXTENDS Integers, Sequences, FiniteSets, TLC

VARIABLES
    boxInput,    \* the raw text handed to the box validator
    boxResult,   \* what the validator returned for it, or NotRun
    pc,          \* where the messageCreate handler stands
    msg,         \* the message being handled
    command,     \* const command (line 116)
    parsed,      \* what mc.parse returned: [args, error, help] (line 117)
    args,        \* the options record, as the handler holds (and updates) it
    typing,      \* whether the typing indicator was shown
    fetches,     \* the URLs requested with axios.get, in order
    image,       \* the fetched bytes, as the image library sees them
    pipeline,    \* the sharp pipeline: the calls made on it, the extract region
    err,         \* the stage whose failure the try block caught, or "none"
    rejection,   \* the request whose failure left the handler, or "none"
    issued,      \* the replies handed to message.reply, in order
    replies      \* the replies Discord delivered, in order

boxVars == <<boxInput, boxResult>>
handlerVars ==
    <<pc, msg, command, parsed, args, typing, fetches, image, pipeline, err, rejection,
      issued, replies>>
vars == <<boxVars, handlerVars>>

(***************************************************************************)
(* Bounds.                                                                 *)
(***************************************************************************)
\* Longest raw text tried on the box validator ("1 0 0 1" needs 7).
MaxLen == 7
\* Most options one command of the handler's specification supplies.
MaxSupplied == 2

(***************************************************************************)
(* Strings.                                                                *)
(***************************************************************************)
Digits == {"0", "1", "2", "3", "4", "5", "6", "7", "8", "9"}

DigitVal(c) ==
    CASE c = "0" -> 0 [] c = "1" -> 1 [] c = "2" -> 2 [] c = "3" -> 3
      [] c = "4" -> 4 [] c = "5" -> 5 [] c = "6" -> 6 [] c = "7" -> 7
      [] c = "8" -> 8 [] c = "9" -> 9

\* The characters the raw texts of this model are written in.  A digit, the
\* space, the minus sign and the semicolon: of these, only digits, a leading
\* minus sign and surrounding spaces can be part of a numeric literal.
BoxChars == {"0", "1", " ", ";", "-"}

\* String.prototype.split(sep) for a one-character separator: the pieces
\* between the separators, empty pieces included.
RECURSIVE Split(_, _)
Split(s, sep) ==
    IF \A i \in 1..Len(s) : s[i] # sep
    THEN <<s>>
    ELSE LET i == CHOOSE k \in 1..Len(s) :
                      s[k] = sep /\ \A j \in 1..(k - 1) : s[j] # sep
         IN  <<SubSeq(s, 1, i - 1)>> \o Split(SubSeq(s, i + 1, Len(s)), sep)

\* Array.prototype.filter((s) => s.length > 0)
NonEmpty(pieces) == SelectSeq(pieces, LAMBDA p : Len(p) > 0)

\* String.prototype.startsWith
StartsWith(s, prefix) ==
    Len(s) >= Len(prefix) /\ SubSeq(s, 1, Len(prefix)) = prefix

RECURSIVE TrimLeft(_)
TrimLeft(s) == IF s # <<>> /\ s[1] = " " THEN TrimLeft(Tail(s)) ELSE s

RECURSIVE TrimRight(_)
TrimRight(s) ==
    IF s # <<>> /\ s[Len(s)] = " " THEN TrimRight(SubSeq(s, 1, Len(s) - 1)) ELSE s

RECURSIVE DecVal(_)
DecVal(ds) ==
    IF ds = <<>> THEN 0
    ELSE 10 * DecVal(SubSeq(ds, 1, Len(ds) - 1)) + DigitVal(ds[Len(ds)])

NaN == [nan |-> TRUE, val |-> 0]

\* Number(input) on a text over digits, space, "-" and ";": surrounding
\* white space is dropped, the empty text is 0, an optional "-" followed by
\* one or more decimal digits is that integer (-0 is 0), anything else NaN.
Number(input) ==
    LET t    == TrimRight(TrimLeft(input))
        neg  == t # <<>> /\ t[1] = "-"
        body == IF neg THEN Tail(t) ELSE t
    IN  IF t = <<>> THEN [nan |-> FALSE, val |-> 0]
        ELSE IF body # <<>> /\ \A i \in 1..Len(body) : body[i] \in Digits
        THEN [nan |-> FALSE, val |-> IF neg THEN 0 - DecVal(body) ELSE DecVal(body)]
        ELSE NaN

(***************************************************************************)
(* Value validators.  A validator returns [ok |-> TRUE, ...] or, where the *)
(* code throws mc.ParseError, ParseError.                                  *)
(***************************************************************************)
ParseError == [ok |-> FALSE]

\* Number.isSafeInteger(num): num is an integer of magnitude below 2^53.
\* Every number a text of this model denotes is an integer far below 2^53,
\* so the test is whether the text denotes a number at all.
IsSafeInteger(num) == ~num.nan

positiveInteger(input) ==
    LET num == Number(input)
    IN  IF ~IsSafeInteger(num) \/ num.val < 0
        THEN ParseError
        ELSE [ok |-> TRUE, val |-> num.val]

Box(t, r, b, l) == [ok |-> TRUE, top |-> t, right |-> r, bottom |-> b, left |-> l]

\* SidePieces that takes a semicolon for a separator as well.
SidePiecesSemicolon(input) ==
    NonEmpty(Split([i \in 1..Len(input) |-> IF input[i] = ";" THEN " " ELSE input[i]], " "))

\* input.split(" ").filter((s) => s.length > 0)
SidePieces(input) == NonEmpty(Split(input, " "))

\* ExpandSides that takes three sides as top, horizontal, bottom.
ExpandSidesThree(sides) ==
    CASE Len(sides) = 1 -> Box(sides[1], sides[1], sides[1], sides[1])
      [] Len(sides) = 2 -> Box(sides[1], sides[2], sides[1], sides[2])
      [] Len(sides) = 3 -> Box(sides[1], sides[2], sides[3], sides[2])
      [] Len(sides) = 4 -> Box(sides[1], sides[2], sides[3], sides[4])
      [] OTHER -> ParseError

\* switch (sides.length)
ExpandSides(sides) ==
    CASE Len(sides) = 1 -> Box(sides[1], sides[1], sides[1], sides[1])
      [] Len(sides) = 2 -> Box(sides[1], sides[2], sides[1], sides[2])
      [] Len(sides) = 4 -> Box(sides[1], sides[2], sides[3], sides[4])
      [] OTHER -> ParseError

box(input) ==
    LET pieces == SidePieces(input)
        mapped == [i \in 1..Len(pieces) |-> positiveInteger(pieces[i])]
    IN  IF \E i \in 1..Len(pieces) : ~mapped[i].ok
        THEN ParseError
        ELSE ExpandSides([i \in 1..Len(pieces) |-> mapped[i].val])

\* boxResult before the validator has run.
NotRun == [ok |-> FALSE, run |-> FALSE]

formats == {"png", "jpg", "jpeg", "webp", "gif"}

(***************************************************************************)
(* The messages the handler is tried on.                                   *)
(***************************************************************************)
Imgbot == <<"i", "m", "g", "b", "o", "t">>
Sp == <<" ">>
WordHelp == <<"h", "e", "l", "p">>
WordDashHelp == <<"-", "-", "h", "e", "l", "p">>
WordQuestion == <<"?">>
WordBlur == <<"-", "-", "b", "l", "u", "r">>
WordBogus == <<"-", "-", "b", "o", "g", "u", "s">>

HelpWords == {WordHelp, WordDashHelp, WordQuestion}

Contents ==
    { Imgbot,                                          \* "imgbot"
      Imgbot \o Sp \o WordBlur,                        \* "imgbot --blur"
      Imgbot \o <<"s">> \o Sp \o WordBlur,             \* "imgbots --blur"
      Imgbot \o Sp \o WordHelp,                        \* "imgbot help"
      Imgbot \o Sp \o WordDashHelp,                    \* "imgbot --help"
      Imgbot \o Sp \o WordQuestion \o Sp \o WordBogus, \* "imgbot ? --bogus"
      Imgbot \o Sp \o Sp \o WordHelp,                  \* "imgbot  help"
      <<"i", "m", "g">> \o Sp \o WordHelp,             \* "img help"
      WordHelp \o Sp \o Imgbot }                       \* "help imgbot"

AttachmentLists ==
    { <<>>, <<"cdn://attachment-1">>, <<"cdn://attachment-1", "cdn://attachment-2">> }

Messages == [bot : BOOLEAN, content : Contents, attachments : AttachmentLists]

(***************************************************************************)
(* What mc.parse returns.  miniclap is a dependency, not part of the       *)
(* repository: its result is an input of the handler, drawn from the       *)
(* records the option table of lines 117-199 allows.  A boolean option is  *)
(* false unless supplied, format is "png" unless supplied, every other     *)
(* option is undefined unless supplied, and a value option holds what its  *)
(* validator returned.                                                     *)
(***************************************************************************)
BoolOptions == {"removeAlpha", "ensureAlpha", "sharpen", "negative", "blur", "greyscale"}
ValueOptions == {"input", "quality", "crop", "flip", "threshold", "tint",
                 "width", "height", "rotation", "extend", "background"}
OptionNames == BoolOptions \cup ValueOptions \cup {"format"}

\* The positional argument: a URL, or the empty token that two spaces in a
\* row leave in the command.
ExplicitUrl == "http://host/explicit.png"
EmptyText == ""

\* The raw texts given to --crop and --extend.
CropInputs == { <<"5", " ", "1", "0">>, <<"1">> }
Boxes == { box(raw) : raw \in CropInputs }

Red == [r |-> 255, g |-> 0, b |-> 0]

Opt(S, name, values) == IF name \in S THEN { {v} : v \in values } ELSE { {} }
Flag(S, name) == IF name \in S THEN {TRUE} ELSE {FALSE}

\* The options records of a command that supplies the options S.
ArgsWith(S) ==
    [ input       : Opt(S, "input", {ExplicitUrl, EmptyText}),
      format      : IF "format" \in S THEN formats ELSE {"png"},
      quality     : Opt(S, "quality", {80}),
      removeAlpha : Flag(S, "removeAlpha"),
      ensureAlpha : Flag(S, "ensureAlpha"),
      crop        : Opt(S, "crop", Boxes),
      flip        : Opt(S, "flip", {"x", "y"}),
      sharpen     : Flag(S, "sharpen"),
      threshold   : Opt(S, "threshold", {0}),
      negative    : Flag(S, "negative"),
      blur        : Flag(S, "blur"),
      tint        : Opt(S, "tint", {Red}),
      greyscale   : Flag(S, "greyscale"),
      width       : Opt(S, "width", {50}),
      height      : Opt(S, "height", {50}),
      rotation    : Opt(S, "rotation", {90}),
      extend      : Opt(S, "extend", {box(<<"1">>)}),
      background  : Opt(S, "background", {Red}) ]

SuppliedSets == { S \in SUBSET OptionNames : Cardinality(S) <= MaxSupplied }
ArgsSet == UNION { ArgsWith(S) : S \in SuppliedSets }

\* error.invalid as its entries [key, message], error.missing, error.unexpected.
InvalidLists ==
    { <<>>,
      << <<"crop", "'1;2' is not a valid box specification.">> >>,
      << <<"flip", "'z' is not a valid axis.">>,
         <<"width", "'-1' is not a positive integer.">> >> }
MissingLists == { <<>>, <<"pixels">> }
UnexpectedLists == { <<>>, <<"--bogus">>, <<"--bogus", "--x">> }

Errors ==
    { e \in [invalid : InvalidLists, missing : MissingLists, unexpected : UnexpectedLists] :
        e.invalid # <<>> \/ e.missing # <<>> \/ e.unexpected # <<>> }

Usage == [params |-> "[input]", options |-> "-F, --format ..."]

NoArgs == [none |-> TRUE]
NotParsed == [none |-> TRUE]

ParseResults ==
    { [args |-> a, error |-> {}, help |-> Usage] : a \in ArgsSet }
    \cup { [args |-> NoArgs, error |-> {e}, help |-> Usage] : e \in Errors }

(***************************************************************************)
(* Replies.  A reply is its text, line by line (a line is its pieces), the *)
(* options it echoes and the names of the files it carries.                *)
(***************************************************************************)
NoEcho == [k \in {} |-> {}]

\* The lines that open and close a code block (three backquotes).
Fence == <<"[code fence]">>
FenceJs == <<"[code fence js]">>

TextReply(kind, lines) == [kind |-> kind, lines |-> lines, echo |-> NoEcho, files |-> <<>>]

HelpReply(help) ==
    TextReply("usage",
        << Fence, <<"imgbot ", help.params>>, <<"  ", help.options>>, Fence,
           Fence, <<"Use --option 'has spaces' for spaces">>,
           <<" Use --option=-2 for negative numbers">>, Fence >>)

InvalidLine(entry) == <<"Invalid ", entry[1], ": ", entry[2]>>
MissingLine(a) == <<"Missing argument ", a, ".">>
UnexpectedLine(a) == <<"Unexpected argument '", a, "'.">>

\* ErrorLines without the unexpected arguments.
ErrorLinesNoUnexpected(error) ==
    [i \in 1..Len(error.invalid) |-> InvalidLine(error.invalid[i])]
    \o [i \in 1..Len(error.missing) |-> MissingLine(error.missing[i])]

ErrorLines(error) ==
    LET inv == [i \in 1..Len(error.invalid) |-> InvalidLine(error.invalid[i])]
        mis == [i \in 1..Len(error.missing) |-> MissingLine(error.missing[i])]
        unx == [i \in 1..Len(error.unexpected) |-> UnexpectedLine(error.unexpected[i])]
    IN  inv \o mis \o unx

ErrorReply(error) ==
    TextReply("parseError", << Fence >> \o ErrorLines(error) \o << Fence >>)

AttachReply == TextReply("attach", << <<"Exactly one image must be attached.">> >>)

\* FailureReply that discloses the cause.
FailureReplyCause == TextReply("failure", << <<"Error: ", "the cause">> >>)

FailureReply == TextReply("failure", << <<"Invalid image or options.">> >>)

\* The value an option holds when the command does not supply it.
DefaultOf(k) ==
    IF k \in BoolOptions THEN FALSE
    ELSE IF k = "format" THEN "png"
    ELSE {}

\* EchoKeys that leaves out every option holding its default.
EchoKeysNoDefaults(a) == { k \in DOMAIN a : a[k] # DefaultOf(k) }

\* Object.entries(args).filter(([, v]) => v !== false): only a boolean is
\* ever strictly equal to false.
EchoKeys(a) == { k \in DOMAIN a : IF k \in BoolOptions THEN a[k] # FALSE ELSE TRUE }

Filename(format) ==
    CASE format = "png" -> "img.png"
      [] format \in {"jpg", "jpeg"} -> "img.jpg"
      [] format = "webp" -> "img.webp"
      [] format = "gif" -> "img.gif"

SuccessReply(a) ==
    [ kind  |-> "file",
      lines |-> << FenceJs, Fence >>,
      echo  |-> [k \in EchoKeys(a) |-> a[k]],
      files |-> <<Filename(a.format)>> ]

(***************************************************************************)
(* The image pipeline.  The pipeline is the sequence of the calls made on  *)
(* the sharp object, by name, and the region given to extract.  An image   *)
(* is what axios.get returned: the bytes of an image of some width and     *)
(* height, or bytes the image library cannot read.                         *)
(***************************************************************************)
NoImage == [fetched |-> FALSE]
Unreadable == [fetched |-> TRUE, ok |-> FALSE]
Picture(w, h) == [fetched |-> TRUE, ok |-> TRUE, width |-> w, height |-> h]

Images == { Picture(100, 100), Picture(4, 2), Unreadable }

NoPipeline == [calls |-> <<>>, extract |-> {}]

Call(cond, name) == IF cond THEN <<name>> ELSE <<>>

\* Lines 238-242.
AlphaCalls(a) ==
    IF a.removeAlpha THEN <<"removeAlpha">>
    ELSE IF a.ensureAlpha THEN <<"ensureAlpha">>
    ELSE <<>>

\* CropRegion that takes the insets of one side only from the dimensions.
CropRegionOneInset(metadata, crop) ==
    [ left   |-> crop.left,
      top    |-> crop.top,
      width  |-> metadata.width - crop.left,
      height |-> metadata.height - crop.top ]

\* Lines 245-251: the region handed to extract.
CropRegion(metadata, crop) ==
    [ left   |-> crop.left,
      top    |-> crop.top,
      width  |-> metadata.width - crop.left - crop.right,
      height |-> metadata.height - crop.top - crop.bottom ]

\* Lines 253-257.
FlipCalls(a) ==
    IF a.flip = {"x"} THEN <<"flop">>
    ELSE IF a.flip = {"y"} THEN <<"flip">>
    ELSE <<>>

\* Lines 270-274.
TintCalls(a) ==
    IF a.tint # {} THEN <<"tint">>
    ELSE IF a.greyscale THEN <<"greyscale">>
    ELSE <<>>

\* Lines 295-317.
EncodeCalls(a) ==
    CASE a.format = "png" -> <<"png">>
      [] a.format \in {"jpg", "jpeg"} -> <<"jpeg">>
      [] a.format = "webp" -> <<"webp">>
      [] a.format = "gif" -> <<"gif">>
      [] OTHER -> <<>>

\* TransformCalls with the rotation made before the resize.
TransformCallsRotateFirst(a) ==
    FlipCalls(a)
    \o Call(a.sharpen, "sharpen")
    \o Call(a.threshold # {}, "threshold")
    \o Call(a.negative, "negate")
    \o Call(a.blur, "blur")
    \o TintCalls(a)
    \o Call(a.rotation # {}, "rotate")
    \o Call(a.width # {} \/ a.height # {}, "resize")
    \o Call(a.extend # {}, "extend")
    \o EncodeCalls(a)

\* Lines 253-317: the calls made after the crop step, in program order.
TransformCalls(a) ==
    FlipCalls(a)
    \o Call(a.sharpen, "sharpen")
    \o Call(a.threshold # {}, "threshold")
    \o Call(a.negative, "negate")
    \o Call(a.blur, "blur")
    \o TintCalls(a)
    \o Call(a.width # {} \/ a.height # {}, "resize")
    \o Call(a.rotation # {}, "rotate")
    \o Call(a.extend # {}, "extend")
    \o EncodeCalls(a)

\* The calls whose argument sharp may reject, throwing as the call is made:
\* a threshold above 255, a width or height of 0, a quality of 0.
Rejecting == {"threshold", "resize", "jpeg", "webp"}

\* The calls made before the call named thrower throws.
RECURSIVE Before(_, _)
Before(calls, thrower) ==
    IF calls = <<>> \/ Head(calls) = thrower THEN <<>>
    ELSE <<Head(calls)>> \o Before(Tail(calls), thrower)

Thrown(calls, thrower) == \E i \in 1..Len(calls) : calls[i] = thrower

\* libvips refuses an extract region without width or height.
EmptyRegion(p) == \E r \in p.extract : r.width <= 0 \/ r.height <= 0

(***************************************************************************)
(* The messageCreate handler (lines 112-335).  Handlers of different       *)
(* messages share no state: one message is followed at a time.             *)
(***************************************************************************)
\* Ignored without the test of the author: a bot's command would be handled.
IgnoredTriggerOnly(m) == ~StartsWith(m.content, Imgbot)

\* Lines 113-114.
Ignored(m) == m.bot \/ ~StartsWith(m.content, Imgbot)

\* Line 116.
CommandOf(content) == Tail(Split(content, " "))

\* Line 201.
IsHelp(cmd) == cmd # <<>> /\ cmd[1] \in HelpWords

\* !args.input: undefined and the empty string are falsy.
Falsy(input) == input = {} \/ input = {EmptyText}

\* MissingImage that only asks for some attachment: two would pass.
MissingImageNone(a, m) == Falsy(a.input) /\ Len(m.attachments) = 0

\* Line 222.
MissingImage(a, m) == Falsy(a.input) /\ Len(m.attachments) # 1

\* Branch with the parse error tested before the help keyword.
BranchErrorFirst(cmd, p, m) ==
    IF p.error # {} THEN "error"
    ELSE IF cmd # <<>> /\ cmd[1] \in HelpWords THEN "help"
    ELSE IF MissingImage(p.args, m) THEN "attach"
    ELSE "run"

\* Lines 201-225: which of the handler's branches a parsed command takes.
Branch(cmd, p, m) ==
    IF IsHelp(cmd) THEN "help"
    ELSE IF p.error # {} THEN "error"
    ELSE IF MissingImage(p.args, m) THEN "attach"
    ELSE "run"

\* Line 230: ??= replaces undefined only.
Source(a, m) == IF a.input = {} THEN {m.attachments[1]} ELSE a.input

NoMessage == [bot |-> FALSE, content |-> <<>>, attachments |-> <<>>]

Init ==
    /\ boxInput = <<>>
    /\ boxResult = NotRun
    /\ pc = "idle"
    /\ msg = NoMessage
    /\ command = <<>>
    /\ parsed = NotParsed
    /\ args = NoArgs
    /\ typing = FALSE
    /\ fetches = <<>>
    /\ image = NoImage
    /\ pipeline = NoPipeline
    /\ err = "none"
    /\ rejection = "none"
    /\ issued = <<>>
    /\ replies = <<>>

\* Lines 112-227: a message arrives and is handled up to the first await,
\* which is that of a text reply (lines 206, 219, 223) or that of the typing
\* indicator (line 227).
MessageCreate ==
    /\ pc = "idle"
    /\ \E m \in Messages, p \in ParseResults :
        /\ msg' = m
        /\ typing' = FALSE
        /\ fetches' = <<>>
        /\ image' = NoImage
        /\ pipeline' = NoPipeline
        /\ err' = "none"
        /\ rejection' = "none"
        /\ replies' = <<>>
        /\ IF Ignored(m)
           THEN /\ command' = <<>>
                /\ parsed' = NotParsed
                /\ args' = NoArgs
                /\ issued' = <<>>
                /\ pc' = "done"
           ELSE /\ command' = CommandOf(m.content)
                /\ parsed' = p
                /\ args' = p.args
                /\ LET branch == Branch(CommandOf(m.content), p, m)
                   IN  /\ issued' =
                            CASE branch = "help" -> <<HelpReply(p.help)>>
                              [] branch = "error" -> <<ErrorReply(CHOOSE e \in p.error : TRUE)>>
                              [] branch = "attach" -> <<AttachReply>>
                              [] OTHER -> <<>>
                       /\ pc' = IF branch = "run" THEN "typing" ELSE "replyText"
    /\ UNCHANGED boxVars

\* Lines 206-207, 219-220, 223-224: the text reply is delivered and the
\* handler returns, or the request fails: nothing is delivered and the
\* failure leaves the handler (the calls are outside the try block).
ReplyText ==
    /\ pc = "replyText"
    /\ \/ replies' = Append(replies, issued[Len(issued)]) /\ rejection' = rejection
       \/ replies' = replies /\ rejection' = "reply"
    /\ pc' = "done"
    /\ UNCHANGED <<boxVars, msg, command, parsed, args, typing, fetches, image, pipeline, err,
                   issued>>

\* Line 227: the typing indicator is shown, or the request fails and the
\* failure leaves the handler (the call is outside the try block).
SendTyping ==
    /\ pc = "typing"
    /\ \/ typing' = TRUE /\ pc' = "fetch" /\ rejection' = rejection
       \/ typing' = FALSE /\ pc' = "done" /\ rejection' = "typing"
    /\ UNCHANGED <<boxVars, msg, command, parsed, args, fetches, image, pipeline, err, issued,
                   replies>>

\* Lines 230-231: the source is settled and requested; the handler waits
\* for the response.
Fetch ==
    /\ pc = "fetch"
    /\ args' = [args EXCEPT !.input = Source(args, msg)]
    /\ fetches' = Append(fetches, CHOOSE u \in Source(args, msg) : TRUE)
    /\ pc' = "response"
    /\ UNCHANGED <<boxVars, msg, command, parsed, typing, image, pipeline, err, rejection,
                   issued, replies>>

\* Lines 231-235: the response arrives, or the request fails.
Response ==
    /\ pc = "response"
    /\ \/ \E i \in Images : image' = i /\ pc' = "pipeline" /\ err' = err
       \/ image' = image /\ pc' = "catch" /\ err' = "fetch"
    /\ UNCHANGED <<boxVars, msg, command, parsed, args, typing, fetches, pipeline, rejection,
                   issued, replies>>

\* Lines 237-243.
StartPipeline ==
    /\ pc = "pipeline"
    /\ pipeline' = [calls |-> AlphaCalls(args), extract |-> {}]
    /\ pc' = IF args.crop # {} THEN "metadata" ELSE "transform"
    /\ UNCHANGED <<boxVars, msg, command, parsed, args, typing, fetches, image, err, rejection,
                   issued, replies>>

\* Lines 244-252: the metadata is read and the region extracted.  extract
\* throws for a width or height below zero.
Metadata ==
    /\ pc = "metadata"
    /\ IF ~image.ok
       THEN pc' = "catch" /\ err' = "metadata" /\ pipeline' = pipeline
       ELSE LET region == CropRegion(image, CHOOSE c \in args.crop : TRUE)
            IN  IF region.width < 0 \/ region.height < 0
                THEN pc' = "catch" /\ err' = "transform" /\ pipeline' = pipeline
                ELSE /\ pipeline' = [calls   |-> Append(pipeline.calls, "extract"),
                                     extract |-> {region}]
                     /\ pc' = "transform"
                     /\ err' = err
    /\ UNCHANGED <<boxVars, msg, command, parsed, args, typing, fetches, image, rejection,
                   issued, replies>>

\* Lines 253-317.
Transform ==
    /\ pc = "transform"
    /\ \E thrower \in Rejecting \cup {"none"} :
        LET calls == TransformCalls(args)
        IN  IF Thrown(calls, thrower)
            THEN /\ pipeline' = [pipeline EXCEPT !.calls = @ \o Before(calls, thrower)]
                 /\ pc' = "catch"
                 /\ err' = "transform"
            ELSE /\ pipeline' = [pipeline EXCEPT !.calls = @ \o calls]
                 /\ pc' = "toBuffer"
                 /\ err' = err
    /\ UNCHANGED <<boxVars, msg, command, parsed, args, typing, fetches, image, rejection,
                   issued, replies>>

\* Lines 319-330: the pipeline runs; with its output the reply that carries
\* the file is handed to message.reply.
ToBuffer ==
    /\ pc = "toBuffer"
    /\ \/ /\ image.ok /\ ~EmptyRegion(pipeline)
          /\ issued' = Append(issued, SuccessReply(args))
          /\ pc' = "reply" /\ err' = err
       \/ /\ issued' = issued
          /\ pc' = "catch"
          /\ err' = IF ~image.ok THEN "decode"
                    ELSE IF EmptyRegion(pipeline) THEN "transform" ELSE "encode"
    /\ UNCHANGED <<boxVars, msg, command, parsed, args, typing, fetches, image, pipeline,
                   rejection, replies>>

\* Lines 320-330: the reply with the file is delivered, or the upload fails.
ReplyFile ==
    /\ pc = "reply"
    /\ \/ replies' = Append(replies, issued[Len(issued)]) /\ pc' = "done" /\ err' = err
       \/ replies' = replies /\ pc' = "catch" /\ err' = "upload"
    /\ UNCHANGED <<boxVars, msg, command, parsed, args, typing, fetches, image, pipeline,
                   rejection, issued>>

\* Lines 331-333: the failure is caught and the fixed text handed to
\* message.reply.
Catch ==
    /\ pc = "catch"
    /\ issued' = Append(issued, FailureReply)
    /\ pc' = "replyFailure"
    /\ UNCHANGED <<boxVars, msg, command, parsed, args, typing, fetches, image, pipeline, err,
                   rejection, replies>>

\* Lines 333-334: the fixed text is delivered, or the request fails: nothing
\* is delivered and the failure leaves the handler (no handler surrounds the
\* catch block).
ReplyFailure ==
    /\ pc = "replyFailure"
    /\ \/ replies' = Append(replies, issued[Len(issued)]) /\ rejection' = rejection
       \/ replies' = replies /\ rejection' = "reply"
    /\ pc' = "done"
    /\ UNCHANGED <<boxVars, msg, command, parsed, args, typing, fetches, image, pipeline, err,
                   issued>>

\* The handler has returned (or its promise has rejected): nothing of the
\* message is kept.  Every name the handler assigns is a local of the call,
\* so the handlers of two messages share none of this state and one message
\* is followed at a time.
Return ==
    /\ pc = "done"
    /\ pc' = "idle"
    /\ msg' = NoMessage
    /\ command' = <<>>
    /\ parsed' = NotParsed
    /\ args' = NoArgs
    /\ typing' = FALSE
    /\ fetches' = <<>>
    /\ image' = NoImage
    /\ pipeline' = NoPipeline
    /\ err' = "none"
    /\ rejection' = "none"
    /\ issued' = <<>>
    /\ replies' = <<>>
    /\ UNCHANGED boxVars

Next ==
    \/ MessageCreate
    \/ ReplyText
    \/ SendTyping
    \/ Fetch
    \/ Response
    \/ StartPipeline
    \/ Metadata
    \/ Transform
    \/ ToBuffer
    \/ ReplyFile
    \/ Catch
    \/ ReplyFailure
    \/ Return

Spec == Init /\ [][Next]_vars

(***************************************************************************)
(* The building of the pipeline on its own: the handler stands after the   *)
(* fetch of the one attachment of the message "imgbot" with an options     *)
(* record that sets any of the options the pipeline reads.                 *)
(***************************************************************************)
PipelineOptions ==
    {"format", "removeAlpha", "ensureAlpha", "crop", "flip", "sharpen", "threshold",
     "negative", "blur", "tint", "greyscale", "width", "height", "rotation", "extend"}

PipelineArgs == UNION { ArgsWith(S) : S \in SUBSET PipelineOptions }

InitPipeline ==
    /\ boxInput = <<>>
    /\ boxResult = NotRun
    /\ pc = "pipeline"
    /\ msg = [bot |-> FALSE, content |-> Imgbot, attachments |-> <<"cdn://attachment-1">>]
    /\ command = <<>>
    /\ \E a \in PipelineArgs :
          /\ parsed = [args |-> a, error |-> {}, help |-> Usage]
          /\ args = [a EXCEPT !.input = {"cdn://attachment-1"}]
    /\ typing = TRUE
    /\ fetches = <<"cdn://attachment-1">>
    /\ image = Picture(100, 100)
    /\ pipeline = NoPipeline
    /\ err = "none"
    /\ rejection = "none"
    /\ issued = <<>>
    /\ replies = <<>>

\* The pipeline is built; it is complete when toBuffer is reached.
NextPipeline ==
    \/ StartPipeline
    \/ Metadata
    \/ Transform

SpecPipeline == InitPipeline /\ [][NextPipeline]_vars

(***************************************************************************)
(* The box validator on its own: a raw text is typed, then validated.      *)
(***************************************************************************)
NotRunYet == boxResult = NotRun

InitBox == Init

TypeChar ==
    /\ NotRunYet
    /\ Len(boxInput) < MaxLen
    /\ \E c \in BoxChars : boxInput' = Append(boxInput, c)
    /\ UNCHANGED <<boxResult, handlerVars>>

ValidateBox ==
    /\ NotRunYet
    /\ boxResult' = box(boxInput)
    /\ UNCHANGED <<boxInput, handlerVars>>

NextBox == TypeChar \/ ValidateBox

SpecBox == InitBox /\ [][NextBox]_vars

(***************************************************************************)
(* Properties of the handler, checked under Spec.                          *)
(***************************************************************************)
Handling == pc # "idle"

\* The message is not a bot's and its text begins with imgbot.
Triggered == ~msg.bot /\ StartsWith(msg.content, Imgbot)

\* The first token after the trigger is help, --help or ?.
AsksHelp ==
    LET tokens == Split(msg.content, " ")
    IN  /\ Len(tokens) >= 2
        /\ tokens[2] \in { <<"h", "e", "l", "p">>,
                           <<"-", "-", "h", "e", "l", "p">>,
                           <<"?">> }

\* No typing indicator, no fetch, no pipeline step.
NoWork == ~typing /\ fetches = <<>> /\ image = NoImage /\ pipeline = NoPipeline

IsText(reply, text) ==
    reply.lines = << <<text>> >> /\ reply.files = <<>> /\ DOMAIN reply.echo = {}

\* What Discord delivered of the replies handed to message.reply: nothing
\* while the handler waits on the request at position at, and once the
\* handler is over either all of them or, the request having failed, none.
DeliveredFrom(at) ==
    /\ pc = at => replies = <<>> /\ rejection = "none"
    /\ pc = "done" => \/ replies = issued /\ rejection = "none"
                      \/ replies = <<>> /\ rejection = "reply"

\* One text reply was handed to message.reply before anything else was done,
\* and the handler stops with it.
StopsWithOneReply ==
    /\ pc \in {"replyText", "done"}
    /\ Len(issued) = 1
    /\ DeliveredFrom("replyText")
    /\ NoWork

\* The failures of the fetch, of the metadata read, of a transform step and
\* of the encoding.
PipelineFailures == {"fetch", "metadata", "transform", "decode", "encode"}

\* The crop of the command leaves no width or no height on the fetched image.
CropLeavesNothing ==
    /\ Handling /\ image # NoImage /\ image.ok
    /\ args # NoArgs
    /\ \E c \in args.crop :
          \/ image.width - c.left - c.right <= 0
          \/ image.height - c.top - c.bottom <= 0

\* C1: when the fetch, the metadata read, a transform step (a crop that
\* leaves no width or height included) or the encoding fails, no reply with
\* a file is handed to message.reply or delivered, nothing is sent before the
\* failure is caught, and the one reply sent for the command is "Invalid
\* image or options.": it is what Discord delivers, unless that request fails
\* too, and then nothing is delivered.
C1_FailureIsTheOnlyReply ==
    (err \in PipelineFailures \/ CropLeavesNothing \/ image = Unreadable) =>
        /\ \A i \in 1..Len(issued) : issued[i].files = <<>>
        /\ \A i \in 1..Len(replies) : replies[i].files = <<>>
        /\ err \in PipelineFailures =>
              /\ pc \in {"catch", "replyFailure", "done"}
              /\ pc = "catch" => issued = <<>> /\ replies = <<>>
              /\ pc # "catch" =>
                    Len(issued) = 1 /\ IsText(issued[1], "Invalid image or options.")
              /\ DeliveredFrom("replyFailure")

\* A crop of 5 10 on the 4x2 image has failed and the reply is out.
C1_Witness ==
    /\ pc = "done" /\ err = "transform"
    /\ image = Picture(4, 2) /\ args.crop = {Box(5, 10, 5, 10)}
    /\ Len(replies) = 1 /\ IsText(replies[1], "Invalid image or options.")

\* The command names a source: the positional argument is a non-empty text.
NamesSource == parsed.args.input # {} /\ parsed.args.input # {""}

\* C2: a parsed command that is no help request and names no source, on a
\* message with no or several attachments, is answered with "Exactly one
\* image must be attached." and nothing else is done; with a source named,
\* the number of attachments plays no part and the source named is what is
\* fetched.
C2_ExactlyOneAttachment ==
    (Handling /\ Triggered /\ ~AsksHelp /\ parsed.error = {}) =>
        IF ~NamesSource
        THEN IF Len(msg.attachments) # 1
             THEN /\ StopsWithOneReply
                  /\ IsText(issued[1], "Exactly one image must be attached.")
             ELSE \A i \in 1..Len(issued) : issued[i].kind # "attach"
        ELSE /\ \A i \in 1..Len(issued) : issued[i].kind # "attach"
             /\ pc = "typing" \/ typing \/ rejection = "typing"
             /\ Len(fetches) <= 1
             /\ \A i \in 1..Len(fetches) : fetches[i] \in parsed.args.input
             /\ pc \notin {"idle", "typing", "fetch"} /\ rejection # "typing" =>
                   Len(fetches) = 1

\* Two attachments and no source: the fixed reply.
C2_Witness ==
    /\ pc = "done" /\ Triggered /\ ~AsksHelp
    /\ parsed # NotParsed /\ parsed.error = {} /\ parsed.args.input = {}
    /\ Len(msg.attachments) = 2
    /\ Len(replies) = 1 /\ replies[1].kind = "attach"

\* C3: a trigger message whose first command token is help, --help or ? is
\* answered with the usage text and nothing else is done (no typing
\* indicator, no fetch, no transform), whatever the parser returned, a parse
\* error included.
C3_HelpFirst ==
    (Handling /\ Triggered /\ AsksHelp) =>
        /\ StopsWithOneReply
        /\ issued[1].kind = "usage"
        /\ issued[1].lines[2] = <<"imgbot ", parsed.help.params>>
        /\ issued[1].files = <<>>

\* "imgbot ? --bogus" with a parse error: the usage text.
C3_Witness ==
    /\ pc = "done" /\ Triggered /\ AsksHelp
    /\ parsed # NotParsed /\ parsed.error # {}
    /\ msg.content = Imgbot \o Sp \o WordQuestion \o Sp \o WordBogus
    /\ Len(replies) = 1 /\ replies[1].kind = "usage"

\* The reply holds a line for each entry of the error and no other line
\* between the code fences.
ListsAll(reply, e) ==
    LET body == SubSeq(reply.lines, 2, Len(reply.lines) - 1)
    IN  /\ Len(body) = Len(e.invalid) + Len(e.missing) + Len(e.unexpected)
        /\ \A i \in 1..Len(e.invalid) :
              \E j \in 1..Len(body) :
                  body[j] = <<"Invalid ", e.invalid[i][1], ": ", e.invalid[i][2]>>
        /\ \A i \in 1..Len(e.missing) :
              \E j \in 1..Len(body) : body[j] = <<"Missing argument ", e.missing[i], ".">>
        /\ \A i \in 1..Len(e.unexpected) :
              \E j \in 1..Len(body) :
                  body[j] = <<"Unexpected argument '", e.unexpected[i], "'.">>

\* C4: for a trigger message that is no help request and whose parse
\* returned an error, one reply is sent, which lists every invalid value,
\* every missing argument and every unexpected argument of the error, and
\* nothing else is done.
C4_ParseErrorListed ==
    (Handling /\ Triggered /\ ~AsksHelp /\ parsed.error # {}) =>
        /\ StopsWithOneReply
        /\ issued[1].kind = "parseError"
        /\ issued[1].files = <<>>
        /\ \A e \in parsed.error : ListsAll(issued[1], e)

\* An error with entries of the three kinds has been reported.
C4_Witness ==
    /\ pc = "done" /\ Triggered /\ ~AsksHelp /\ parsed # NotParsed
    /\ \E e \in parsed.error :
          Len(e.invalid) = 2 /\ Len(e.missing) = 1 /\ Len(e.unexpected) = 2
    /\ Len(replies) = 1 /\ Len(replies[1].lines) = 7

\* The pieces joined by single spaces.
RECURSIVE Join(_)
Join(pieces) ==
    IF Len(pieces) = 1 THEN pieces[1]
    ELSE pieces[1] \o <<" ">> \o Join(Tail(pieces))

\* C5: a message of a bot, or one whose text does not begin with imgbot, is
\* ignored: no reply, no typing indicator, no fetch, no transform.  Every
\* other message is handled as a command, whose arguments are the
\* space-separated tokens after the first.
C5_TriggerGuard ==
    Handling =>
        IF msg.bot \/ ~StartsWith(msg.content, Imgbot)
        THEN /\ pc = "done" /\ issued = <<>> /\ replies = <<>> /\ rejection = "none"
             /\ NoWork /\ parsed = NotParsed
        ELSE /\ parsed # NotParsed
             /\ \E n \in 1..Len(msg.content) :
                   /\ \A j \in 1..n : msg.content[j] # " "
                   /\ Join(<<SubSeq(msg.content, 1, n)>> \o command) = msg.content
             /\ \A i \in 1..Len(command) : \A j \in 1..Len(command[i]) : command[i][j] # " "
             /\ pc = "done" => (issued # <<>> \/ rejection = "typing")

\* A bot wrote "imgbot --blur": nothing was done.
C5_Witness ==
    /\ pc = "done" /\ msg.bot
    /\ msg.content = Imgbot \o Sp \o WordBlur
    /\ issued = <<>> /\ replies = <<>>

\* C7: with the crop option set, the region extracted starts at (left, top)
\* and has the width and height of the fetched image less the insets of
\* both sides; the dimensions are those of the image, not the --width and
\* --height of the command.
C7_CropRegion ==
    /\ \A r \in pipeline.extract :
          /\ image.ok
          /\ \E c \in args.crop :
                /\ r.left = c.left
                /\ r.top = c.top
                /\ r.width = image.width - c.left - c.right
                /\ r.height = image.height - c.top - c.bottom
    /\ (pc \in {"transform", "toBuffer", "reply"} /\ args.crop # {}) =>
          /\ pipeline.extract # {}
          /\ \E i \in 1..Len(pipeline.calls) : pipeline.calls[i] = "extract"

\* left=10, top=5, right=10, bottom=5 on the 100x100 image, with --width 50
\* in the same command: 80 by 90 at (10, 5).
C7_Witness ==
    /\ image = Picture(100, 100)
    /\ args # NoArgs /\ args.width = {50}
    /\ args.crop = {[ok |-> TRUE, top |-> 5, right |-> 10, bottom |-> 5, left |-> 10]}
    /\ pipeline.extract = {[left |-> 10, top |-> 5, width |-> 80, height |-> 90]}

Success == pc = "done" /\ Len(replies) = 1 /\ replies[1].kind = "file"

\* C9 as stated: the echo holds an entry only if its value is neither false
\* nor the default of the option, so that format is left out when it holds
\* "png".  (Stated of the options that always hold a value, the flags and
\* format; whether an option left undefined is an entry of the record at all
\* is the argument parser's choice.)
C9_EchoOmitsDefaults ==
    Success =>
        \A k \in BoolOptions \cup {"format"} :
            k \in DOMAIN replies[1].echo <=>
                args[k] # (IF k = "format" THEN "png" ELSE FALSE)

\* C9, amended: the echo holds the entries of the options record whose value
\* is not false, each with its value, whether or not that value is the
\* default of the option: format is always echoed, "png" included, and so is
\* the source, which holds the URL of the attachment when none was named.
C9_EchoKeepsAllButFalse ==
    Success =>
        /\ DOMAIN replies[1].echo =
              { k \in DOMAIN args : k \in BoolOptions => args[k] # FALSE }
        /\ \A k \in DOMAIN replies[1].echo : replies[1].echo[k] = args[k]
        /\ "format" \in DOMAIN replies[1].echo
        /\ "input" \in DOMAIN replies[1].echo /\ replies[1].echo["input"] # {}

\* A command that supplies --blur only: format "png" is echoed.
C9_Witness ==
    /\ Success
    /\ parsed.args.input = {} /\ parsed.args.format = "png" /\ parsed.args.blur
    /\ replies[1].echo["format"] = "png"
    /\ replies[1].echo["blur"] = TRUE
    /\ "sharpen" \notin DOMAIN replies[1].echo

(***************************************************************************)
(* Properties of the pipeline, checked under SpecPipeline.                 *)
(***************************************************************************)
\* The place of a call in the order alpha handling, crop, flip, sharpen,
\* threshold, negate, blur, tint or greyscale, resize, rotate, extend,
\* encode.
Place(call) ==
    CASE call \in {"removeAlpha", "ensureAlpha"} -> 1
      [] call = "extract" -> 2
      [] call \in {"flop", "flip"} -> 3
      [] call = "sharpen" -> 4
      [] call = "threshold" -> 5
      [] call = "negate" -> 6
      [] call = "blur" -> 7
      [] call \in {"tint", "greyscale"} -> 8
      [] call = "resize" -> 9
      [] call = "rotate" -> 10
      [] call = "extend" -> 11
      [] call \in {"png", "jpeg", "webp", "gif"} -> 12

\* Whether the options select the operation of a place.
Selected(a, place) ==
    CASE place = 1 -> a.removeAlpha \/ a.ensureAlpha
      [] place = 2 -> a.crop # {}
      [] place = 3 -> a.flip # {}
      [] place = 4 -> a.sharpen
      [] place = 5 -> a.threshold # {}
      [] place = 6 -> a.negative
      [] place = 7 -> a.blur
      [] place = 8 -> a.tint # {} \/ a.greyscale
      [] place = 9 -> a.width # {} \/ a.height # {}
      [] place = 10 -> a.rotation # {}
      [] place = 11 -> a.extend # {}
      [] place = 12 -> TRUE

Made(call) == \E i \in 1..Len(pipeline.calls) : pipeline.calls[i] = call

\* C8: the calls made on the pipeline are in the one fixed order, each place
\* at most once, and each is one the options select; once the pipeline is
\* built (toBuffer is reached) every operation the options select has been
\* made, the encoder last; tint is made and greyscale is not when both are
\* set.
C8_FixedOrder ==
    /\ \A i, j \in 1..Len(pipeline.calls) :
          i < j => Place(pipeline.calls[i]) < Place(pipeline.calls[j])
    /\ \A i \in 1..Len(pipeline.calls) : Selected(args, Place(pipeline.calls[i]))
    /\ pc = "toBuffer" =>
          /\ \A place \in 1..12 :
                Selected(args, place) =>
                    \E i \in 1..Len(pipeline.calls) : Place(pipeline.calls[i]) = place
          /\ Place(pipeline.calls[Len(pipeline.calls)]) = 12
          /\ args.tint # {} => Made("tint") /\ ~Made("greyscale")
          /\ args.tint = {} /\ args.greyscale => Made("greyscale")
          /\ args.removeAlpha => Made("removeAlpha") /\ ~Made("ensureAlpha")

\* --tint and --greyscale with a crop, a flip, a rotation and a resize: the
\* pipeline is built.
C8_Witness ==
    /\ pc = "toBuffer"
    /\ args.tint # {} /\ args.greyscale
    /\ pipeline.calls = <<"extract", "flop", "tint", "resize", "rotate", "webp">>

(***************************************************************************)
(* Properties of the box validator, checked under SpecBox.                 *)
(***************************************************************************)
\* Where the runs of characters other than the space begin.
TokenStarts(s) == { i \in 1..Len(s) : s[i] # " " /\ (i = 1 \/ s[i - 1] = " ") }

TokenFrom(s, i) ==
    LET j == CHOOSE k \in i..Len(s) :
                 /\ \A m \in i..k : s[m] # " "
                 /\ (k = Len(s) \/ s[k + 1] = " ")
    IN  SubSeq(s, i, j)

\* The tokens of s, in order.
Tokens(s) ==
    [n \in 1..Cardinality(TokenStarts(s)) |->
        TokenFrom(s, CHOOSE i \in TokenStarts(s) :
                         Cardinality({ j \in TokenStarts(s) : j < i }) = n - 1)]

AllIn(t, chars) == \A i \in 1..Len(t) : t[i] \in chars

\* The token is the decimal numeral of a non-negative integer (-0 is 0).
IsNatural(t) ==
    \/ t # <<>> /\ AllIn(t, Digits)
    \/ Len(t) >= 2 /\ t[1] = "-" /\ AllIn(Tail(t), {"0"})

NaturalOf(t) == IF t[1] = "-" THEN 0 ELSE DecVal(t)

\* C6: the validator succeeds exactly on 1, 2 or 4 space-separated
\* non-negative integers; a gives a on every side, (a, b) gives top and
\* bottom a, left and right b, (a, b, c, d) gives top a, right b, bottom c,
\* left d; every other count and every text with another token fails.
C6_BoxRule ==
    boxResult # NotRun =>
        LET tokens == Tokens(boxInput)
            n      == Len(tokens)
            v      == [i \in 1..n |-> NaturalOf(tokens[i])]
        IN  IF (\A i \in 1..n : IsNatural(tokens[i])) /\ n \in {1, 2, 4}
            THEN boxResult =
                    CASE n = 1 -> [ok |-> TRUE, top |-> v[1], right |-> v[1],
                                   bottom |-> v[1], left |-> v[1]]
                      [] n = 2 -> [ok |-> TRUE, top |-> v[1], right |-> v[2],
                                   bottom |-> v[1], left |-> v[2]]
                      [] n = 4 -> [ok |-> TRUE, top |-> v[1], right |-> v[2],
                                   bottom |-> v[3], left |-> v[4]]
            ELSE boxResult = [ok |-> FALSE]

\* "10 1" has been validated: top and bottom 10, left and right 1.
C6_Witness ==
    /\ boxInput = <<"1", "0", " ", "1">>
    /\ boxResult = [ok |-> TRUE, top |-> 10, right |-> 1, bottom |-> 10, left |-> 1]

\* The text is 1, 2 or 4 numerals of non-negative integers with a semicolon
\* between each two.
SemicolonList(s) ==
    LET items == Split(s, ";")
    IN  /\ Len(items) \in {1, 2, 4}
        /\ \A i \in 1..Len(items) : items[i] # <<>> /\ AllIn(items[i], Digits)

\* The same integers with a space between each two.
Spaced(s) == [i \in 1..Len(s) |-> IF s[i] = ";" THEN " " ELSE s[i]]

\* C10 as stated: a semicolon-separated text of 1, 2 or 4 integers parses,
\* and to the box of the space-separated text.
C10_SemicolonsAccepted ==
    (boxResult # NotRun /\ SemicolonList(boxInput)) =>
        boxResult.ok /\ boxResult = box(Spaced(boxInput))

\* C10, amended: the space-separated text of 1, 2 or 4 integers parses; the
\* semicolon-separated text of the same integers parses, and to the same
\* box, only when it holds one integer (and so no separator), and is
\* rejected when it holds 2 or 4.
C10_SpacesOnly ==
    (boxResult # NotRun /\ SemicolonList(boxInput)) =>
        /\ box(Spaced(boxInput)).ok
        /\ IF Len(Split(boxInput, ";")) = 1
           THEN boxResult = box(Spaced(boxInput))
           ELSE boxResult = [ok |-> FALSE]

\* "1;0;0;1" has been rejected, where "1 0 0 1" parses.
C10_Witness ==
    /\ boxInput = <<"1", ";", "0", ";", "0", ";", "1">>
    /\ boxResult = [ok |-> FALSE]
    /\ box(<<"1", " ", "0", " ", "0", " ", "1">>).ok
====
